---- MODULE Spec2Model ----
(***************************************************************************)
(* corepack: the deferred-length map framer (src/map_serializer.rs) and    *)
(* the generic self-describing value (src/generic.rs).                     *)
(*                                                                         *)
(* A usize is kept at its width, which is the target's pointer width: 32   *)
(* or 64 bits (`width`).  TLC's integers are 32 bits wide, so a usize is a *)
(* tuple of four 16-bit limbs, most significant limb first:                *)
(* <<l3, l2, l1, l0>> stands for l3*2^48 + l2*2^32 + l1*2^16 + l0, and on  *)
(* a 32-bit target the two upper limbs are 0.                              *)
(***************************************************************************)
EXTENDS Integers, Sequences, FiniteSets, TLC

VARIABLES width, ms, alive, trace, kf, uf, eqlog, epc,
          gstack, gpc, gres, glast, gops,
          expected, x, field, actual, rpc,
          pg, pres, mpairs, mvis, mlog, sitems, svis, slog

framerVars == <<ms, alive, trace>>

equivVars == <<kf, uf, eqlog, epc>>

genVars == <<gstack, gpc, gres, glast, gops>>

rtVars == <<expected, x, field, actual, rpc>>

pivotVars == <<pg, pres>>

mapVisVars == <<mpairs, mvis, mlog>>

seqVisVars == <<sitems, svis, slog>>

decVars == <<pivotVars, mapVisVars, seqVisVars>>

vars == <<width, ms, alive, trace, kf, uf, eqlog, epc, gstack, gpc, gres, glast, gops,
          expected, x, field, actual, rpc,
          pg, pres, mpairs, mvis, mlog, sitems, svis, slog>>

(***************************************************************************)
(* usize arithmetic on limbs                                               *)
(***************************************************************************)
Limb == 2^16

Byte == 2^8

\* A small number as a usize.
U(n) == <<0, 0, 0, n>>

\* hi*2^16 + lo of the two low limbs, and the limbs above.
U4(l3, l2, l1, l0) == <<l3, l2, l1, l0>>

\* The pointer widths a build can have.
UsizeWidths == {32, 64}

\* a is a value of the target's usize.
Fits(a) == width = 64 \/ (a[1] = 0 /\ a[2] = 0)

\* The usize a 64-bit result wraps to, and whether it left the usize range.
Wrapped(full, carry) ==
    IF width = 64
    THEN [val |-> full, overflow |-> carry]
    ELSE [val |-> <<0, 0, full[3], full[4]>>,
          overflow |-> carry \/ full[1] # 0 \/ full[2] # 0]

\* a <= b on usize values (the comparison operators of lines 64, 66, 70).
ULe(a, b) ==
    \/ a[1] < b[1]
    \/ a[1] = b[1] /\ a[2] < b[2]
    \/ a[1] = b[1] /\ a[2] = b[2] /\ a[3] < b[3]
    \/ a[1] = b[1] /\ a[2] = b[2] /\ a[3] = b[3] /\ a[4] <= b[4]

\* a + 1 on usize, and whether it overflowed.
UInc(a) ==
    LET s4 == a[4] + 1
        s3 == a[3] + (s4 \div Limb)
        s2 == a[2] + (s3 \div Limb)
        s1 == a[1] + (s2 \div Limb)
    IN  Wrapped(<<s1 % Limb, s2 % Limb, s3 % Limb, s4 % Limb>>, s1 \div Limb = 1)

\* a * 2 on usize, and whether it overflowed.
UDouble(a) ==
    LET s4 == a[4] * 2
        s3 == a[3] * 2 + (s4 \div Limb)
        s2 == a[2] * 2 + (s3 \div Limb)
        s1 == a[1] * 2 + (s2 \div Limb)
    IN  Wrapped(<<s1 % Limb, s2 % Limb, s3 % Limb, s4 % Limb>>, s1 \div Limb = 1)

\* a / 2 on usize (integer division).
UHalf(a) ==
    LET q1 == a[1] \div 2
        r1 == a[1] % 2
        q2 == (r1 * Limb + a[2]) \div 2
        r2 == a[2] % 2
        q3 == (r2 * Limb + a[3]) \div 2
        r3 == a[3] % 2
        q4 == (r3 * Limb + a[4]) \div 2
    IN  <<q1, q2, q3, q4>>

\* a % m for a small modulus m that divides 2^16 (only the low limb matters).
UModSmall(a, m) == a[4] % m

\* Bitwise OR of two bytes.
RECURSIVE BitOr(_, _)
BitOr(a, b) ==
    IF a = 0 THEN b
    ELSE IF b = 0 THEN a
    ELSE (IF a % 2 = 1 \/ b % 2 = 1 THEN 1 ELSE 0) + 2 * BitOr(a \div 2, b \div 2)

\* `size as u8`, `size as u16`, `size as u32`: truncating casts.
AsU8(a) == a[4] % Byte

AsU16(a) == a[4]

AsU32(a) == <<a[3], a[4]>>

\* BigEndian::write_u16 and BigEndian::write_u32: most significant byte first.
write_u16(v) == <<v \div Byte, v % Byte>>

write_u32(v) == write_u16(v[1]) \o write_u16(v[2])

(***************************************************************************)
(* Wire constants (defs.rs)                                                *)
(***************************************************************************)
MAX_FIXMAP == U(15)

MAX_MAP16 == U(65535)

MAX_MAP32 == U4(0, 0, 65535, 65535)

FIXMAP_MASK == 128

MAP16 == 222

MAP32 == 223

U16_BYTES == 2

U32_BYTES == 4

(***************************************************************************)
(* Option<usize>                                                           *)
(***************************************************************************)
None == [some |-> FALSE, v |-> U(0)]

Some(n) == [some |-> TRUE, v |-> n]

(***************************************************************************)
(* MapSerializer.  `output` is what the caller's sink has accepted so far; *)
(* `res` is the Result of the last method called on the framer.  A sink    *)
(* call either accepts the bytes (acc) or returns an error of its own.     *)
(***************************************************************************)
new ==
    [count |-> U(0), size |-> None, buffer |-> <<>>, output |-> <<>>, res |-> "Ok"]

\* (self.output)(bytes)
output(self, bytes, acc) ==
    IF acc
    THEN [self EXCEPT !.output = @ \o bytes, !.res = "Ok"]
    ELSE [self EXCEPT !.res = "SinkFailed"]

\* [tag; n + 1] with the payload written over buf[1..].
header_buf(tag, payload) == <<tag>> \o payload

output_map_header_wide(self, size, acc) ==
    IF ULe(size, MAX_FIXMAP) THEN
        output(self, <<BitOr(AsU8(size), FIXMAP_MASK)>>, acc)
    ELSE IF ULe(size, MAX_MAP32) THEN
        output(self, header_buf(MAP32, write_u32(AsU32(size))), acc)
    ELSE
        [self EXCEPT !.res = "TooBig"]

output_map_header_no_limit(self, size, acc) ==
    IF ULe(size, MAX_FIXMAP) THEN
        output(self, <<BitOr(AsU8(size), FIXMAP_MASK)>>, acc)
    ELSE IF ULe(size, MAX_MAP16) THEN
        output(self, header_buf(MAP16, write_u16(AsU16(size))), acc)
    ELSE
        output(self, header_buf(MAP32, write_u32(AsU32(size))), acc)

output_map_header(self, size, acc) ==
    IF ULe(size, MAX_FIXMAP) THEN
        output(self, <<BitOr(AsU8(size), FIXMAP_MASK)>>, acc)
    ELSE IF ULe(size, MAX_MAP16) THEN
        output(self, header_buf(MAP16, write_u16(AsU16(size))), acc)
    ELSE IF ULe(size, MAX_MAP32) THEN
        output(self, header_buf(MAP32, write_u32(AsU32(size))), acc)
    ELSE
        [self EXCEPT !.res = "TooBig"]

hint_size_deferred(self, size, acc) ==
    [self EXCEPT !.size = size, !.res = "Ok"]

hint_size(self, size, acc) ==
    LET s1 == [self EXCEPT !.size = size]
    IN  IF s1.size.some
        THEN output_map_header(s1, s1.size.v, acc)
        ELSE [s1 EXCEPT !.res = "Ok"]

should_serialize_directly(self) == self.size.some

serialize_into_buffer_leaky(self, value) ==
    [self EXCEPT !.output = @ \o value.bytes, !.res = value.res]

\* value.serialize(&mut target) with the target's sink appending to the buffer:
\* the value's bytes land in the buffer and the value's own result comes back.
serialize_into_buffer(self, value) ==
    [self EXCEPT !.buffer = @ \o value.bytes, !.res = value.res]

\* value.serialize(&mut target) with the target's sink being the real output.
serialize_directly(self, value, acc) ==
    IF value.bytes = <<>> THEN [self EXCEPT !.res = value.res]
    ELSE IF acc THEN [self EXCEPT !.output = @ \o value.bytes, !.res = value.res]
    ELSE [self EXCEPT !.res = "SinkFailed"]

serialize_element(self, value, acc) ==
    LET s1 == [self EXCEPT !.count = UInc(@).val]
    IN  IF should_serialize_directly(s1)
        THEN serialize_directly(s1, value, acc)
        ELSE serialize_into_buffer(s1, value)

\* Result<usize>: count % 1 is 0 for every count.
get_item_count_unhalved(self) ==
    [ok |-> TRUE, val |-> self.count]

get_item_count_pairs_only(self) ==
    IF UModSmall(self.count, 2) # 0
    THEN [ok |-> FALSE, val |-> U(0)]
    ELSE [ok |-> TRUE, val |-> UHalf(self.count)]

get_item_count(self) ==
    IF UModSmall(self.count, 1) # 0
    THEN [ok |-> FALSE, val |-> U(0)]
    ELSE [ok |-> TRUE, val |-> UHalf(self.count)]

check_item_count_matches_size(self, size) ==
    IF size # self.count THEN "BadLength" ELSE "Ok"

finish_flush_first(self, checked, acc1, acc2) ==
    IF self.size.some THEN
        [self EXCEPT !.res = check_item_count_matches_size(self, UDouble(self.size.v).val)]
    ELSE
        LET s1 == output(self, self.buffer, acc2)
        IN  IF s1.res # "Ok" THEN s1
            ELSE output_map_header(s1, UHalf(self.count), acc1)

\* finish.  `checked` is the build's overflow checking of `size * 2`: a build
\* with overflow checks panics, one without wraps.
finish(self, checked, acc1, acc2) ==
    IF self.size.some THEN
        LET d == UDouble(self.size.v)
        IN  IF d.overflow /\ checked
            THEN [self EXCEPT !.res = "Panic"]
            ELSE [self EXCEPT !.res = check_item_count_matches_size(self, d.val)]
    ELSE
        LET c == get_item_count(self)
        IN  IF ~c.ok THEN [self EXCEPT !.res = "BadLength"]
            ELSE LET s1 == output_map_header(self, c.val, acc1)
                 IN  IF s1.res # "Ok" THEN s1
                     ELSE output(s1, s1.buffer, acc2)

(***************************************************************************)
(* The framer driven through its public surface: hint_size (pub), the      *)
(* SerializeMap methods serialize_key / serialize_value, and end.          *)
(* trace is the log of the calls made so far on this framer: the method,   *)
(* its argument, its Result and the bytes the sink accepted during it.     *)
(***************************************************************************)
MaxCalls == 3

MaxHint == 2

MaxHeaderCalls == 3

\* What a value's Serialize impl does against the nested encoder: the bytes
\* it pushes through and the Result it returns (an error may follow bytes).
Values ==
    { [bytes |-> <<1>>, res |-> "Ok"],
      [bytes |-> <<2, 3>>, res |-> "Ok"],
      [bytes |-> <<4>>, res |-> "BadLength"] }

NoValue == [bytes |-> <<>>, res |-> "Ok"]

\* 2^(width-1): the smallest size whose double does not fit a usize.
HalfRange == IF width = 64 THEN U4(32768, 0, 0, 0) ELSE U4(0, 0, 32768, 0)

HintSizes == {None} \cup {Some(U(n)) : n \in 0..MaxHint} \cup {Some(HalfRange)}

\* The sizes around each header class's edge.
BoundarySizes ==
    { s \in { None, Some(U(0)), Some(U(15)), Some(U(16)), Some(U(65535)),
              Some(U4(0, 0, 1, 0)), Some(U4(0, 0, 65535, 65535)),
              Some(U4(0, 1, 0, 0)), Some(HalfRange) } : Fits(s.v) }

Suffix(now, before) == SubSeq(now, Len(before) + 1, Len(now))

\* One call in the log: the method, its argument, the framer before and after.
Entry(op, size, value, before, after) ==
    [op |-> op, size |-> size, value |-> value, pre |-> before, post |-> after]

\* The bytes the sink accepted during a logged call.
Wrote(e) == Suffix(e.post.output, e.pre.output)

(***************************************************************************)
(* Generic (generic.rs:15-27): a tag and a payload.                        *)
(***************************************************************************)
Nil == [t |-> "Nil", v |-> 0]

False == [t |-> "False", v |-> 0]

True == [t |-> "True", v |-> 0]

\* Generic::Int (Int is the set of integers here).
GInt(i) == [t |-> "Int", v |-> i]

UInt(i) == [t |-> "UInt", v |-> i]

F32(f) == [t |-> "F32", v |-> f]

F64(f) == [t |-> "F64", v |-> f]

Bin(b) == [t |-> "Bin", v |-> b]

Str(st) == [t |-> "Str", v |-> st]

Array(a) == [t |-> "Array", v |-> a]

Map(m) == [t |-> "Map", v |-> m]

\* A Result of the generic encoder and decoder.
Ok(g) == [ok |-> TRUE, val |-> g, err |-> "Ok"]

Err(reason) == [ok |-> FALSE, val |-> Nil, err |-> reason]

(***************************************************************************)
(* VecGeneric as a serde Serializer (generic.rs:511-799): `self` is the    *)
(* Vec<Generic> the items are pushed to.                                   *)
(***************************************************************************)
push(self, g) == Append(self, g)

serialize_bool(self, v) == push(self, IF v THEN True ELSE False)

serialize_i64(self, v) == push(self, GInt(v))

serialize_isize(self, value) == serialize_i64(self, value)

serialize_i8(self, value) == serialize_i64(self, value)

serialize_u64_renormalized(self, v) == push(self, IF v < 2147483647 THEN GInt(v) ELSE UInt(v))

serialize_u64(self, v) == push(self, UInt(v))

serialize_usize(self, value) == serialize_u64(self, value)

serialize_f32(self, f) == push(self, F32(f))

serialize_f64(self, f) == push(self, F64(f))

serialize_str(self, value) == push(self, Str(value))

serialize_bytes(self, value) == push(self, Bin(value))

serialize_unit(self) == push(self, Nil)

serialize_unit_variant(self, variant) == serialize_str(self, variant)

\* serialize_seq: the SeqState, an empty VecGeneric whatever the length hint.
serialize_seq == <<>>

serialize_seq_end(self, state) == push(self, Array(state))

\* MapGeneric
serialize_map == [keys |-> <<>>, values |-> <<>>]

\* keys.into_iter().zip(values.into_iter()).collect()
Zip(keys, values) == [i \in 1..Len(keys) |-> <<keys[i], values[i]>>]

serialize_map_end(self, state) ==
    IF Len(state.keys) # Len(state.values)
    THEN [res |-> "Custom", self |-> self]
    ELSE [res |-> "Ok", self |-> push(self, Map(Zip(state.keys, state.values)))]

\* TupleVariantState: (variant, VecGeneric)
serialize_tuple_variant(variant) == [variant |-> variant, vec |-> serialize_seq]

serialize_tuple_variant_end(self, state) ==
    push(self, Map(<< <<Str(state.variant), Array(state.vec)>> >>))

newtype_variant_wrap_pop(self, state) ==
    IF state.vec = <<>>
    THEN [res |-> "BadLength", self |-> self]
    ELSE [res |-> "Ok",
          self |-> push(self, Map(<< <<Str(state.variant), state.vec[Len(state.vec)]>> >>))]

\* serialize_newtype_variant after the payload has serialized into state
\* (lines 632-647).
newtype_variant_wrap(self, state) ==
    IF Len(state.vec) # 1
    THEN [res |-> "BadLength", self |-> self]
    ELSE [res |-> "Ok",
          self |-> push(self, Map(<< <<Str(state.variant), state.vec[Len(state.vec)]>> >>))]

\* StructVariantState: (variant, MapGeneric)
serialize_struct_variant(variant) == [variant |-> variant, map |-> serialize_map]

\* serialize_struct_variant_elt up to the value: the key is a &'static str,
\* which serializes as one Str into the keys.
struct_variant_key(state, key) ==
    [state EXCEPT !.map.keys = serialize_str(@, key)]

serialize_struct_variant_end_flat(self, state) ==
    [res |-> "Ok", self |-> push(self, Map(Zip(state.map.keys, state.map.values)))]

serialize_struct_variant_end(self, state) ==
    IF Len(state.map.keys) # Len(state.map.values)
    THEN [res |-> "Custom", self |-> self]
    ELSE [res |-> "Ok",
          self |-> push(self, Map(<< <<Str(state.variant),
                                      Map(Zip(state.map.keys, state.map.values))>> >>))]

from_value_pop_last(buf) ==
    IF buf = <<>> THEN Err("BadLength") ELSE Ok(buf[Len(buf)])

\* Generic::from_value after value.serialize(&mut buf) returned Ok
\* (lines 807-815).
from_value_pop(buf) ==
    IF buf # <<>>
    THEN IF SubSeq(buf, 1, Len(buf) - 1) # <<>>
         THEN Err("BadLength")
         ELSE Ok(buf[Len(buf)])
    ELSE Err("BadLength")

\* A Result<(), Error> of Ok with the builder it leaves.
OkRes(self) == [res |-> "Ok", self |-> self]

RECURSIVE Generic_serialize(_, _), seq_elts(_, _, _), map_elts(_, _, _)
\* impl Serialize for Generic: serialize(&self, s), s being a VecGeneric.
Generic_serialize(s, g) ==
    CASE g.t = "Nil" -> OkRes(serialize_unit(s))
      [] g.t = "False" -> OkRes(serialize_bool(s, FALSE))
      [] g.t = "True" -> OkRes(serialize_bool(s, TRUE))
      [] g.t = "Int" -> OkRes(serialize_i64(s, g.v))
      [] g.t = "UInt" -> OkRes(serialize_u64(s, g.v))
      [] g.t = "F32" -> OkRes(serialize_f32(s, g.v))
      [] g.t = "F64" -> OkRes(serialize_f64(s, g.v))
      [] g.t = "Bin" -> OkRes(serialize_bytes(s, g.v))
      [] g.t = "Str" -> OkRes(serialize_str(s, g.v))
      [] g.t = "Array" ->
           LET state == seq_elts(serialize_seq, g.v, 1)
           IN  IF state.res # "Ok" THEN [res |-> state.res, self |-> s]
               ELSE OkRes(serialize_seq_end(s, state.self))
      [] g.t = "Map" ->
           LET state == map_elts(serialize_map, g.v, 1)
           IN  IF state.res # "Ok" THEN [res |-> state.res, self |-> s]
               ELSE serialize_map_end(s, state.self)

\* for item in a.iter().cloned() { try!(s.serialize_seq_elt(&mut state, item)) }
seq_elts(state, a, i) ==
    IF i > Len(a) THEN OkRes(state)
    ELSE LET r == Generic_serialize(state, a[i])
         IN  IF r.res # "Ok" THEN r ELSE seq_elts(r.self, a, i + 1)

\* for (key, value) in m.iter().cloned() { try!(serialize_map_key);
\* try!(serialize_map_value) }
map_elts(state, m, i) ==
    IF i > Len(m) THEN OkRes(state)
    ELSE LET k == Generic_serialize(state.keys, m[i][1])
             v == Generic_serialize(state.values, m[i][2])
         IN  IF k.res # "Ok" THEN [res |-> k.res, self |-> state]
             ELSE IF v.res # "Ok" THEN [res |-> v.res, self |-> state]
             ELSE map_elts([keys |-> k.self, values |-> v.self], m, i + 1)

\* Generic::from_value(g) for a Generic.
from_value_generic(g) ==
    LET r == Generic_serialize(<<>>, g)
    IN  IF r.res # "Ok" THEN Err(r.res) ELSE from_value_pop(r.self)

(***************************************************************************)
(* The enum of the tests (generic.rs:911-918) and what its derived         *)
(* Serialize and Deserialize call:                                         *)
(*     enum T { A(usize), B, C(i8, i8), D { a: isize } }                   *)
(* A value of T is its variant and its fields in declaration order.        *)
(***************************************************************************)
T(variant, fields) == [variant |-> variant, fields |-> fields]

NoT == T("none", <<>>)

\* Result<T, Error>
TOk(v) == [ok |-> TRUE, val |-> v, err |-> "Ok"]

TErr(reason) == [ok |-> FALSE, val |-> NoT, err |-> reason]

\* T::serialize(&self, serializer) of the derive: one variant call each.
T_serialize(self, v) ==
    CASE v.variant = "A" ->
           LET state == serialize_tuple_variant("A")
           IN  newtype_variant_wrap(self,
                   [state EXCEPT !.vec = serialize_usize(@, v.fields[1])])
      [] v.variant = "B" ->
           [res |-> "Ok", self |-> serialize_unit_variant(self, "B")]
      [] v.variant = "C" ->
           LET state == serialize_tuple_variant("C")
               elt0 == [state EXCEPT !.vec = serialize_i8(@, v.fields[1])]
               elt1 == [elt0 EXCEPT !.vec = serialize_i8(@, v.fields[2])]
           IN  [res |-> "Ok", self |-> serialize_tuple_variant_end(self, elt1)]
      [] v.variant = "D" ->
           LET state == serialize_struct_variant("D")
               key == struct_variant_key(state, "a")
               elt == [key EXCEPT !.map.values = serialize_isize(@, v.fields[1])]
           IN  serialize_struct_variant_end(self, elt)

\* Generic::from_value(&v) for a T.
from_value(v) ==
    LET r == T_serialize(<<>>, v)
    IN  IF r.res # "Ok" THEN Err(r.res) ELSE from_value_pop(r.self)

is_str(g) == g.t = "Str"

\* Error::chain(Reason::Other, ..): a failure is wrapped, a success passes.
chain_dropped(r) == r

chain(r) == IF r.ok THEN r ELSE Err("Other")

\* An integer type's range.  The values of the model are below 2^31, inside
\* usize and isize at either width.
InRange(v, ty) ==
    CASE ty = "i8" -> -128 <= v /\ v <= 127
      [] ty = "usize" -> 0 <= v
      [] ty = "isize" -> TRUE

\* <integer type>::deserialize(&mut g): Generic::deserialize hands an Int to
\* visit_i64 and a UInt to visit_u64, and the visitor of the integer type
\* takes either when the number is in its range.
deserialize_prim(g, ty) ==
    IF g.t \in {"Int", "UInt"}
    THEN IF InRange(g.v, ty) THEN Ok(g.v) ELSE Err("invalid_value")
    ELSE Err("invalid_type")

VARIANTS == {"A", "B", "C", "D"}

\* The derive's variant identifier: a Str naming a variant of T.
Field_deserialize(g) ==
    IF is_str(g)
    THEN IF g.v \in VARIANTS THEN Ok(g.v) ELSE Err("unknown_variant")
    ELSE Err("invalid_type")

visit_variant_first_entry(parent) ==
    IF is_str(parent)
    THEN chain(Field_deserialize(parent))
    ELSE IF parent.t \in {"Map", "Array"}
         THEN IF parent.v = <<>>
              THEN Err("invalid_length")
              ELSE chain(Field_deserialize(Head(parent.v)[1]))
         ELSE Err("invalid_type")

visit_variant(parent) ==
    IF is_str(parent)
    THEN chain(Field_deserialize(parent))
    ELSE IF parent.t = "Map"
         THEN IF Len(parent.v) # 1
              THEN Err("invalid_length")
              ELSE chain(Field_deserialize(parent.v[1][1]))
         ELSE Err("invalid_type")

visit_newtype_key(parent, ty) ==
    IF parent.t = "Map"
    THEN IF Len(parent.v) # 1
         THEN Err("invalid_length")
         ELSE chain(deserialize_prim(parent.v[1][1], ty))
    ELSE Err("invalid_type")

visit_newtype(parent, ty) ==
    IF parent.t = "Map"
    THEN IF Len(parent.v) # 1
         THEN Err("invalid_length")
         ELSE chain(deserialize_prim(parent.v[1][2], ty))
    ELSE Err("invalid_type")

\* visit_tuple up to m[0].1.deserialize(visitor): the Generic the visitor is
\* driven on.
visit_tuple(parent) ==
    IF parent.t = "Map"
    THEN IF Len(parent.v) # 1
         THEN Err("invalid_length")
         ELSE Ok(parent.v[1][2])
    ELSE Err("invalid_type")

visit_struct(parent) == visit_tuple(parent)

\* SeqVisitor::visit::<integer type>: the next item, if any, and the rest.
SeqVisitor_visit(iter, ty) ==
    IF iter # <<>>
    THEN LET r == deserialize_prim(Head(iter), ty)
         IN  [ok |-> r.ok, some |-> r.ok, val |-> IF r.ok THEN r.val ELSE 0,
              err |-> r.err, iter |-> Tail(iter)]
    ELSE [ok |-> TRUE, some |-> FALSE, val |-> 0, err |-> "Ok", iter |-> iter]

SeqVisitor_end_lenient(iter) == "Ok"

SeqVisitor_end(iter) == IF iter = <<>> THEN "Ok" ELSE "invalid_length"

\* The iterator after end: self.iter.next() has taken an item, if one was left.
SeqVisitor_end_iter(iter) == IF iter = <<>> THEN iter ELSE Tail(iter)

\* MapVisitor { iter, value }: value is <<>> for None and <<g>> for Some(g).
MapVisitor(m) == [iter |-> m, value |-> <<>>]

\* MapVisitor::visit_key: the next key, if any; its value is kept aside.
MapVisitor_visit_key(self) ==
    IF self.iter # <<>>
    THEN [some |-> TRUE, key |-> Head(self.iter)[1],
          self |-> [iter |-> Tail(self.iter), value |-> <<Head(self.iter)[2]>>]]
    ELSE [some |-> FALSE, key |-> Nil, self |-> self]

MapVisitor_visit_value_as_ref(self, ty) ==
    IF self.value # <<>>
    THEN [r |-> deserialize_prim(self.value[1], ty), self |-> self]
    ELSE [r |-> Err("end_of_stream"), self |-> self]

\* MapVisitor::visit_value::<integer type>
MapVisitor_visit_value(self, ty) ==
    IF self.value # <<>>
    THEN [r |-> deserialize_prim(self.value[1], ty), self |-> [self EXCEPT !.value = <<>>]]
    ELSE [r |-> Err("end_of_stream"), self |-> self]

MapVisitor_end(self) == IF self.iter = <<>> THEN "Ok" ELSE "invalid_length"

\* The derive's visitor of T::C on a sequence: two i8, then the end.
C_visit_seq(iter) ==
    LET f0 == SeqVisitor_visit(iter, "i8")
        f1 == SeqVisitor_visit(f0.iter, "i8")
    IN  IF ~f0.ok THEN TErr(f0.err)
        ELSE IF ~f0.some THEN TErr("invalid_length")
        ELSE IF ~f1.ok THEN TErr(f1.err)
        ELSE IF ~f1.some THEN TErr("invalid_length")
        ELSE IF SeqVisitor_end(f1.iter) # "Ok" THEN TErr(SeqVisitor_end(f1.iter))
        ELSE TOk(T("C", <<f0.val, f1.val>>))

\* Generic::deserialize(visitor) for the visitor of T::C: an Array is a
\* sequence, anything else is not what the visitor takes.
C_deserialize(g) == IF g.t = "Array" THEN C_visit_seq(g.v) ELSE TErr("invalid_type")

RECURSIVE D_visit_map(_, _)
\* The derive's visitor of T::D on a map: the keys name the fields; a is <<>>
\* until field a has been read.
D_visit_map(self, a) ==
    LET k == MapVisitor_visit_key(self)
    IN  IF ~k.some
        THEN IF MapVisitor_end(k.self) # "Ok" THEN TErr(MapVisitor_end(k.self))
             ELSE IF a = <<>> THEN TErr("missing_field")
             ELSE TOk(T("D", a))
        ELSE IF ~is_str(k.key) THEN TErr("invalid_type")
        ELSE IF k.key.v = "a"
             THEN IF a # <<>> THEN TErr("duplicate_field")
                  ELSE LET val == MapVisitor_visit_value(k.self, "isize")
                       IN  IF val.r.ok THEN D_visit_map(val.self, <<val.r.val>>)
                           ELSE TErr(val.r.err)
             ELSE D_visit_map([k.self EXCEPT !.value = <<>>], a)

\* The derive's visitor of T::D on a sequence: field a, then the end.
D_visit_seq(iter) ==
    LET f0 == SeqVisitor_visit(iter, "isize")
    IN  IF ~f0.ok THEN TErr(f0.err)
        ELSE IF ~f0.some THEN TErr("invalid_length")
        ELSE IF SeqVisitor_end(f0.iter) # "Ok" THEN TErr(SeqVisitor_end(f0.iter))
        ELSE TOk(T("D", <<f0.val>>))

\* Generic::deserialize(visitor) for the visitor of T::D.
D_deserialize(g) ==
    IF g.t = "Map" THEN D_visit_map(MapVisitor(g.v), <<>>)
    ELSE IF g.t = "Array" THEN D_visit_seq(g.v)
    ELSE TErr("invalid_type")

\* The generic encoder before a from_value call.
NoFrame == [kind |-> "none", variant |-> "", vec |-> <<>>, keys |-> <<>>, slot |-> "value"]

NoOp == [op |-> "none", frame |-> NoFrame, before |-> <<>>, after |-> <<>>, res |-> "Ok"]

GenIdle ==
    /\ gstack = << [NoFrame EXCEPT !.kind = "from_value"] >>
    /\ gpc = "serializing"
    /\ gres = Err("Pending")
    /\ glast = NoOp
    /\ gops = 0

\* The pivot and the decode iterators, before they are used.
PivotIdle ==
    /\ pg = Nil
    /\ pres = Err("Idle")

MapVisIdle ==
    /\ mpairs = <<>>
    /\ mvis = MapVisitor(<<>>)
    /\ mlog = <<>>

SeqVisIdle ==
    /\ sitems = <<>>
    /\ svis = <<>>
    /\ slog = <<>>

DecIdle == PivotIdle /\ MapVisIdle /\ SeqVisIdle

\* The round trip of a T, before it starts.
RTIdle ==
    /\ expected = T("B", <<>>)
    /\ x = Err("Pending")
    /\ field = Err("Pending")
    /\ actual = TErr("Pending")
    /\ rpc = "idle"

\* The framers of the known-vs-unknown comparison, before it starts.
EquivIdle ==
    /\ kf = new
    /\ uf = new
    /\ eqlog = <<>>
    /\ epc = "start"

Init ==
    /\ width \in UsizeWidths
    /\ ms = new
    /\ alive = TRUE
    /\ trace = <<>>
    /\ EquivIdle
    /\ GenIdle
    /\ DecIdle
    /\ RTIdle

HintSizeFrom(sizes, limit) ==
    /\ alive
    /\ Len(trace) < limit
    /\ \E size \in sizes, acc \in BOOLEAN :
          LET after == hint_size(ms, size, acc)
          IN  /\ ms' = after
              /\ trace' = Append(trace, Entry("hint_size", size, NoValue, ms, after))
    /\ UNCHANGED <<width, alive, equivVars, genVars, rtVars, decVars>>

HintSize == HintSizeFrom(HintSizes, MaxCalls)

SerializeKey ==
    /\ alive
    /\ Len(trace) < MaxCalls
    /\ \E value \in Values, acc \in BOOLEAN :
          LET after == serialize_element(ms, value, acc)
          IN  /\ ms' = after
              /\ trace' = Append(trace, Entry("serialize_key", None, value, ms, after))
    /\ UNCHANGED <<width, alive, equivVars, genVars, rtVars, decVars>>

SerializeValue ==
    /\ alive
    /\ Len(trace) < MaxCalls
    /\ \E value \in Values, acc \in BOOLEAN :
          LET after == serialize_element(ms, value, acc)
          IN  /\ ms' = after
              /\ trace' = Append(trace, Entry("serialize_value", None, value, ms, after))
    /\ UNCHANGED <<width, alive, equivVars, genVars, rtVars, decVars>>

\* end(self): finish consumes the framer.
End ==
    /\ alive
    /\ \E checked \in BOOLEAN, acc1 \in BOOLEAN, acc2 \in BOOLEAN :
          LET after == finish(ms, checked, acc1, acc2)
          IN  /\ ms' = after
              /\ trace' = Append(trace, Entry("finish", None, NoValue, ms, after))
    /\ alive' = FALSE
    /\ UNCHANGED <<width, equivVars, genVars, rtVars, decVars>>

Next == HintSize \/ SerializeKey \/ SerializeValue \/ End

Spec == Init /\ [][Next]_vars

(***************************************************************************)
(* The header encoder at the edges of its size classes.  The framer starts *)
(* with an element counter near the map32 ceiling: the state of a framer   *)
(* that has taken that many elements, one of which wrote a byte.           *)
(***************************************************************************)
HeaderCounts ==
    { c \in { U(0), U4(0, 0, 65535, 65534), U4(0, 1, 65535, 65534),
              U4(0, 2, 0, 0), U4(0, 2, 0, 1) } : Fits(c) }

InitHeader ==
    /\ width \in UsizeWidths
    /\ \E c \in HeaderCounts :
          ms = [new EXCEPT !.count = c, !.buffer = IF c = U(0) THEN <<>> ELSE <<7>>]
    /\ alive = TRUE
    /\ trace = <<>>
    /\ EquivIdle
    /\ GenIdle
    /\ DecIdle
    /\ RTIdle

HeaderHintSize == HintSizeFrom(BoundarySizes, MaxHeaderCalls)

NextHeader == HeaderHintSize \/ End

SpecHeader == InitHeader /\ [][NextHeader]_vars

(***************************************************************************)
(* Claims about the header encoder                                         *)
(***************************************************************************)
\* w is the header of spec section 6 for the entry count n (n < 2^32), stated
\* on the bytes: the count read back from w is n and w is of the least class.
IsMinimalHeader(n, w) ==
    IF n[3] = 0 /\ n[4] <= 15 THEN
        /\ Len(w) = 1
        /\ w[1] = FIXMAP_MASK + n[4]
        /\ w[1] % 16 = n[4]
    ELSE IF n[3] = 0 THEN
        /\ Len(w) = 3
        /\ w[1] = MAP16
        /\ w[2] \in 0..255 /\ w[3] \in 0..255
        /\ w[2] * 256 + w[3] = n[4]
    ELSE
        /\ Len(w) = 5
        /\ w[1] = MAP32
        /\ \A i \in 2..5 : w[i] \in 0..255
        /\ w[2] * 256 + w[3] = n[3]
        /\ w[4] * 256 + w[5] = n[4]

FitsU32(n) == n[1] = 0 /\ n[2] = 0

HintCalls == {i \in DOMAIN trace : trace[i].op = "hint_size" /\ trace[i].size.some}

\* C1: for every entry count n <= 4294967295, hint_size(Some(n)) hands the sink
\* exactly one header, the minimal one for n: one byte FIXMAP_MASK | n for
\* n <= 15, MAP16 and n as a big-endian u16 for 15 < n <= 65535, MAP32 and n as a
\* big-endian u32 above; the only other outcome is the sink's own refusal, with
\* nothing written.
C1_MinimalHeader ==
    \A i \in HintCalls :
        LET e == trace[i]
        IN  FitsU32(e.size.v) =>
               \/ e.post.res = "Ok" /\ IsMinimalHeader(e.size.v, Wrote(e))
               \/ e.post.res = "SinkFailed" /\ Wrote(e) = <<>>

\* C1 witness: 15, 16 and 65536 entries were each hinted and accepted, giving a
\* 1-byte, a 3-byte and a 5-byte header.
C1_Witness ==
    /\ Len(trace) = 3
    /\ trace[1].size = Some(U(15)) /\ Len(Wrote(trace[1])) = 1
    /\ trace[2].size = Some(U(16)) /\ Len(Wrote(trace[2])) = 3
    /\ trace[3].size = Some(U4(0, 0, 1, 0)) /\ Len(Wrote(trace[3])) = 5

\* The entry count of an unknown-size framer exceeds 4294967295: the element
\* counter is at least 2^33.
CountExceedsMap32(c) == c[1] > 0 \/ c[2] >= 2

\* C2: a hint above 4294967295 returns TooBig and writes no header; a finish in
\* unknown-size mode whose entry count is above 4294967295 returns TooBig and
\* leaves the sink as it was, header and buffered bytes unwritten.
C2_TooBigWritesNothing ==
    \A i \in DOMAIN trace :
        LET e == trace[i]
        IN  /\ (e.op = "hint_size" /\ e.size.some /\ ~FitsU32(e.size.v)) =>
                  (e.post.res = "TooBig" /\ e.post.output = e.pre.output)
            /\ (e.op = "finish" /\ ~e.pre.size.some /\ CountExceedsMap32(e.pre.count)) =>
                  (e.post.res = "TooBig" /\ e.post.output = e.pre.output)

\* C2 witness: a hint of 2^32 was refused, the hint was then withdrawn, and the
\* finish of 2^32 buffered entries was refused with its buffer still unwritten.
C2_Witness ==
    /\ width = 64
    /\ Len(trace) = 3
    /\ trace[1].op = "hint_size" /\ trace[1].size = Some(U4(0, 1, 0, 0))
    /\ trace[1].post.res = "TooBig"
    /\ trace[2].op = "hint_size" /\ trace[2].size = None
    /\ trace[3].op = "finish" /\ trace[3].post.res = "TooBig"
    /\ trace[3].pre.buffer # <<>> /\ ms.output = <<>>

(***************************************************************************)
(* Claims about the framer's two modes                                     *)
(***************************************************************************)
IsElement(e) == e.op \in {"serialize_key", "serialize_value"}

\* The bytes of the values serialized in the first k calls of the log, in call
\* order, leaving out the values whose write the sink refused.
RECURSIVE ElementBytes(_)
ElementBytes(k) ==
    IF k = 0 THEN <<>>
    ELSE ElementBytes(k - 1) \o
         (IF IsElement(trace[k]) /\ trace[k].post.res # "SinkFailed"
          THEN trace[k].value.bytes ELSE <<>>)

\* The number of serialize_key plus serialize_value calls in the log.
ElementCalls == Cardinality({i \in DOMAIN trace : IsElement(trace[i])})

\* The element counter c is exactly twice the hint h (no wrap-around).
CountIsTwice(c, h) == c[4] % 2 = 0 /\ UHalf(c) = h

FinishCalls == {i \in DOMAIN trace : trace[i].op = "finish"}

\* The hint_size call that set the size a later call i runs under.
LastHint(i) ==
    CHOOSE j \in 1..(i - 1) :
        /\ trace[j].op = "hint_size"
        /\ \A k \in (j + 1)..(i - 1) : trace[k].op # "hint_size"

\* C4: in known-size mode with hint h (a hint that hint_size accepted), finish
\* succeeds if and only if the element counter is exactly 2*h, and fails with
\* BadLength for every other counter value.
C4_FinishIffCountIsTwiceHint ==
    \A i \in FinishCalls :
        LET e == trace[i]
        IN  (e.pre.size.some /\ trace[LastHint(i)].post.res = "Ok") =>
               /\ e.post.res = "Ok" <=> CountIsTwice(e.pre.count, e.pre.size.v)
               /\ ~CountIsTwice(e.pre.count, e.pre.size.v) => e.post.res = "BadLength"

\* The framer was given a size before its first element and no other hint.
KnownSizeLife ==
    /\ trace # <<>>
    /\ trace[1].op = "hint_size" /\ trace[1].size.some
    /\ \A i \in 2..Len(trace) : trace[i].op # "hint_size"

\* C5: in known-size mode hint_size itself writes the header for the hinted
\* size, first in the sink; every key and value then goes straight to the sink
\* in call order; the buffer is empty at every point and finish writes nothing.
C5_KnownSizeStreams ==
    KnownSizeLife =>
        /\ trace[1].pre.output = <<>>
        /\ trace[1].post.res = "Ok" =>
              IsMinimalHeader(trace[1].size.v, Wrote(trace[1]))
        /\ trace[1].post.res # "Ok" => Wrote(trace[1]) = <<>>
        /\ \A i \in DOMAIN trace : trace[i].post.buffer = <<>>
        /\ \A i \in FinishCalls : Wrote(trace[i]) = <<>>
        /\ ms.output = Wrote(trace[1]) \o ElementBytes(Len(trace))

\* C5 witness: a hint of 1, a key and a value streamed, and a finish that
\* succeeded with header, key and value in the sink.
C5_Witness ==
    /\ KnownSizeLife
    /\ Len(trace) = 4
    /\ trace[1].size = Some(U(1))
    /\ trace[2].op = "serialize_key" /\ trace[3].op = "serialize_value"
    /\ trace[4].op = "finish" /\ trace[4].post.res = "Ok"
    /\ ms.output = <<129, 2, 3, 1>>

\* No size was ever given to the framer.
UnknownSizeLife ==
    \A i \in DOMAIN trace : trace[i].op = "hint_size" => ~trace[i].size.some

\* C6: in unknown-size mode a successful finish writes the header for
\* (element count / 2) entries first and then every key and value encoding in
\* the order the elements were serialized, nothing added, dropped or reordered.
C6_UnknownSizeFinish ==
    \A i \in FinishCalls :
        (UnknownSizeLife /\ trace[i].post.res = "Ok") =>
            /\ trace[i].pre.output = <<>>
            /\ \E k \in {1, 3, 5} :
                  /\ k <= Len(ms.output)
                  /\ IsMinimalHeader(U(ElementCalls \div 2), SubSeq(ms.output, 1, k))
                  /\ SubSeq(ms.output, k + 1, Len(ms.output)) = ElementBytes(Len(trace))

\* C6 witness: two different values buffered as key and value, then flushed in
\* that order behind the header of one entry.
C6_Witness ==
    /\ UnknownSizeLife
    /\ Len(trace) = 3
    /\ trace[1].op = "serialize_key" /\ trace[2].op = "serialize_value"
    /\ trace[3].op = "finish" /\ trace[3].post.res = "Ok"
    /\ ms.output = <<129, 2, 3, 1>>

\* C17: in unknown-size mode finish never fails with BadLength, whatever the
\* element counter (the only failure left here is the sink's own); with an
\* odd counter c a finish the sink accepts returns Ok and leaves the header
\* for floor(c/2) entries followed by all the buffered bytes.
C17_OddCountNotRefused ==
    \A i \in FinishCalls :
        UnknownSizeLife =>
            /\ trace[i].post.res \in {"Ok", "SinkFailed"}
            /\ (ElementCalls % 2 = 1 /\ trace[i].post.res = "Ok") =>
                  /\ trace[i].pre.output = <<>>
                  /\ \E k \in {1, 3, 5} :
                        /\ k <= Len(ms.output)
                        /\ IsMinimalHeader(U((ElementCalls - 1) \div 2),
                                           SubSeq(ms.output, 1, k))
                        /\ SubSeq(ms.output, k + 1, Len(ms.output)) = trace[i].pre.buffer
                        /\ trace[i].pre.buffer = ElementBytes(Len(trace))

\* C17 witness: a key, its value and a second key without its value, then
\* finish: the header of one entry and the three elements.
C17_Witness ==
    /\ UnknownSizeLife
    /\ Len(trace) = 4
    /\ \A i \in 1..3 : IsElement(trace[i])
    /\ trace[4].op = "finish" /\ trace[4].post.res = "Ok"
    /\ Len(ms.output) >= 4
    /\ ms.output[1] = 129

\* The calls of the log that wrote a map header: a hint_size with a size that
\* wrote, and a finish of a framer with no size.
HeaderWrites ==
    {j \in DOMAIN trace :
        \/ trace[j].op = "hint_size" /\ trace[j].size.some /\ Wrote(trace[j]) # <<>>
        \/ trace[j].op = "finish" /\ ~trace[j].pre.size.some /\ Wrote(trace[j]) # <<>>}

\* The mode a logged call ran in: streaming when the framer had a size.
Streaming(e) == e.pre.size.some

\* C18: for every sequence of hint_size, serialize_key and serialize_value
\* calls that all return Ok and end in a successful finish (hint_size after
\* the first element or more than once included): every element and the
\* finish ran in the same mode, exactly one map header was written, and the
\* bytes of every serialized key and value are in the sink behind it, none
\* left in the buffer.
C18_ModeSelectedOnce ==
    \A i \in FinishCalls :
        (\A j \in DOMAIN trace : trace[j].post.res = "Ok") =>
            /\ \A j \in DOMAIN trace :
                  IsElement(trace[j]) => Streaming(trace[j]) = Streaming(trace[i])
            /\ Cardinality(HeaderWrites) = 1
            /\ Streaming(trace[i]) => trace[i].pre.buffer = <<>>
            /\ \E k \in {1, 3, 5} :
                  /\ k <= Len(ms.output)
                  /\ SubSeq(ms.output, k + 1, Len(ms.output)) = ElementBytes(Len(trace))

\* C7: in unknown-size mode nothing reaches the sink before finish, whether the
\* serialize_key / serialize_value calls succeed or fail.
C7_NothingBeforeFinish ==
    (UnknownSizeLife /\ FinishCalls = {}) => ms.output = <<>>

\* C7 witness: three elements, one of them failing after writing a byte, are
\* all in the buffer and the sink is still empty.
C7_Witness ==
    /\ UnknownSizeLife /\ FinishCalls = {}
    /\ Len(trace) = 3
    /\ \A i \in 1..3 : IsElement(trace[i])
    /\ trace[2].post.res = "BadLength"
    /\ Len(ms.buffer) >= 3
    /\ ms.output = <<>>

(***************************************************************************)
(* The same map contents given to two framers, each with a sink of its     *)
(* own: kf is told the number of pairs first, uf is told nothing (or       *)
(* hint_size(None)).  Keys and values alternate, as serialize_entry and a  *)
(* map's Serialize impl produce them.  eqlog is the log of the calls: the  *)
(* value and the Result each framer returned.                              *)
(***************************************************************************)
MaxPairs == 2

EquivInit ==
    /\ width \in UsizeWidths
    /\ ms = new
    /\ alive = TRUE
    /\ trace = <<>>
    /\ EquivIdle
    /\ GenIdle
    /\ DecIdle
    /\ RTIdle

EquivEntry(op, value, k, u) ==
    [op |-> op, value |-> value, kres |-> k.res, ures |-> u.res]

EquivHint ==
    /\ epc = "start"
    /\ \E n \in 0..MaxPairs, none \in BOOLEAN, acc \in BOOLEAN :
          LET k == hint_size(kf, Some(U(n)), acc)
              u == IF none THEN hint_size(uf, None, acc) ELSE uf
          IN  /\ kf' = k
              /\ uf' = u
              /\ eqlog' = Append(eqlog, EquivEntry("hint_size", NoValue, k, u))
    /\ epc' = "feeding"
    /\ UNCHANGED <<width, framerVars, genVars, rtVars, decVars>>

EquivElement(op) ==
    /\ epc = "feeding"
    /\ Len(eqlog) <= 2 * MaxPairs
    /\ \E value \in Values, acck \in BOOLEAN, accu \in BOOLEAN :
          LET k == serialize_element(kf, value, acck)
              u == serialize_element(uf, value, accu)
          IN  /\ kf' = k
              /\ uf' = u
              /\ eqlog' = Append(eqlog, EquivEntry(op, value, k, u))
    /\ UNCHANGED <<width, epc, framerVars, genVars, rtVars, decVars>>

\* serialize_key: the log holds the hint and an even number of elements.
EquivSerializeKey == Len(eqlog) % 2 = 1 /\ EquivElement("serialize_key")

EquivSerializeValue == Len(eqlog) % 2 = 0 /\ EquivElement("serialize_value")

EquivEnd ==
    /\ epc = "feeding"
    /\ \E checked \in BOOLEAN, acc1 \in BOOLEAN, acc2 \in BOOLEAN :
          LET k == finish(kf, checked, acc1, acc2)
              u == finish(uf, checked, acc1, acc2)
          IN  /\ kf' = k
              /\ uf' = u
              /\ eqlog' = Append(eqlog, EquivEntry("finish", NoValue, k, u))
    /\ epc' = "done"
    /\ UNCHANGED <<width, framerVars, genVars, rtVars, decVars>>

NextEquiv == EquivHint \/ EquivSerializeKey \/ EquivSerializeValue \/ EquivEnd

SpecEquiv == EquivInit /\ [][NextEquiv]_vars

\* The encodings of the values in the first k calls of eqlog, in call order.
RECURSIVE FedBytes(_)
FedBytes(k) ==
    IF k = 0 THEN <<>> ELSE FedBytes(k - 1) \o eqlog[k].value.bytes

\* The number of key/value pairs fed so far.
PairsFed == (Len(eqlog) - 2) \div 2

\* Neither sink refused a write.
SinksAccepted ==
    \A i \in DOMAIN eqlog : eqlog[i].kres # "SinkFailed" /\ eqlog[i].ures # "SinkFailed"

\* C3: for every sequence of n key/value pairs, after a successful finish the
\* sink of the framer given hint_size(Some(n)) first and the sink of the framer
\* given no hint (or hint_size(None)) hold the same bytes: header(n) followed by
\* the encodings of k1, v1, ..., kn, vn in call order.
C3_KnownUnknownEquivalent ==
    ( /\ epc = "done"
      /\ kf.size = Some(U(PairsFed))
      /\ Len(eqlog) % 2 = 0
      /\ kf.res = "Ok" /\ uf.res = "Ok"
      /\ SinksAccepted ) =>
        /\ kf.output = uf.output
        /\ \E k \in {1, 3, 5} :
              /\ k <= Len(uf.output)
              /\ IsMinimalHeader(U(PairsFed), SubSeq(uf.output, 1, k))
              /\ SubSeq(uf.output, k + 1, Len(uf.output)) = FedBytes(Len(eqlog))

\* C3 witness: two pairs of different values went through both framers, both
\* finishes succeeded and both sinks hold header(2), k1, v1, k2, v2.
C3_Witness ==
    /\ epc = "done"
    /\ kf.size = Some(U(2))
    /\ kf.res = "Ok" /\ uf.res = "Ok"
    /\ kf.output = <<130, 1, 2, 3, 2, 3, 1>>
    /\ uf.output = <<130, 1, 2, 3, 2, 3, 1>>

(***************************************************************************)
(* Generic::from_value(value): a value's Serialize impl drives the         *)
(* VecGeneric serializer call by call.  gstack holds the builders in       *)
(* progress: from_value's buf at the bottom, above it the state of every   *)
(* sequence, map or variant that has been begun and not yet ended.  A      *)
(* nested value serializes into the state on top (for a struct variant:    *)
(* into the values of its map).                                            *)
(* glast is the last serializer call: the state it consumed and the parent *)
(* builder before and after it.                                            *)
(***************************************************************************)
MaxOps == 3

MaxFields == 2

I64Samples == {-3}

U64Samples == {42}

FieldNames == {"a", "b"}

\* The variant names of test::T, one of each kind.
NewtypeVariants == {"A"}

UnitVariants == {"B"}

TupleVariants == {"C"}

StructVariants == {"D"}

Top == gstack[Len(gstack)]

\* The Vec<Generic> a nested value's items are pushed to.
Target(frame) == IF frame.slot = "key" THEN frame.keys ELSE frame.vec

WithTarget(frame, vec) ==
    IF frame.slot = "key" THEN [frame EXCEPT !.keys = vec] ELSE [frame EXCEPT !.vec = vec]

Frame(kind, variant, slot) ==
    [kind |-> kind, variant |-> variant, vec |-> <<>>, keys |-> <<>>, slot |-> slot]

\* A value is being serialized into the builder on top.
CanPush == gpc = "serializing" /\ Top.slot # "none" /\ gops < MaxOps

GenInit ==
    /\ width = 64
    /\ ms = new
    /\ alive = TRUE
    /\ trace = <<>>
    /\ EquivIdle
    /\ GenIdle
    /\ DecIdle
    /\ RTIdle

GenPush(op, variant, vec) ==
    /\ gstack' = [gstack EXCEPT ![Len(gstack)] = WithTarget(@, vec)]
    /\ glast' = [op |-> op, frame |-> [NoFrame EXCEPT !.variant = variant],
                 before |-> Target(Top), after |-> vec, res |-> "Ok"]
    /\ gops' = gops + 1
    /\ UNCHANGED <<gpc, gres, width, framerVars, equivVars, rtVars, decVars>>

GenOpen(op, frame) ==
    /\ gstack' = Append(gstack, frame)
    /\ glast' = [op |-> op, frame |-> NoFrame, before |-> Target(Top),
                 after |-> Target(Top), res |-> "Ok"]
    /\ gops' = gops + 1
    /\ UNCHANGED <<gpc, gres, width, framerVars, equivVars, rtVars, decVars>>

\* An end call: the state on top is consumed; r is the call's Result and the
\* parent builder it leaves.  An Err comes back out of from_value (try!).
GenClose(op, r) ==
    LET popped == SubSeq(gstack, 1, Len(gstack) - 1)
        parent == popped[Len(popped)]
    IN  /\ glast' = [op |-> op, frame |-> Top, before |-> Target(parent),
                     after |-> r.self, res |-> r.res]
        /\ IF r.res = "Ok"
           THEN /\ gstack' = [popped EXCEPT ![Len(popped)] = WithTarget(@, r.self)]
                /\ UNCHANGED <<gpc, gres>>
           ELSE /\ gstack' = popped
                /\ gpc' = "failed"
                /\ gres' = Err(r.res)
        /\ UNCHANGED <<gops, width, framerVars, equivVars, rtVars, decVars>>

Parent == gstack[Len(gstack) - 1]

SerializeI64 ==
    /\ CanPush
    /\ \E v \in I64Samples : GenPush("serialize_i64", "", serialize_i64(Target(Top), v))

SerializeU64 ==
    /\ CanPush
    /\ \E v \in U64Samples : GenPush("serialize_u64", "", serialize_u64(Target(Top), v))

SerializeUnitVariant ==
    /\ CanPush
    /\ \E variant \in UnitVariants :
          GenPush("serialize_unit_variant", variant,
                  serialize_unit_variant(Target(Top), variant))

SerializeSeq ==
    /\ CanPush
    /\ GenOpen("serialize_seq", Frame("seq", "", "value"))

SerializeSeqEnd ==
    /\ gpc = "serializing" /\ Top.kind = "seq"
    /\ GenClose("serialize_seq_end",
                [res |-> "Ok", self |-> serialize_seq_end(Target(Parent), Top.vec)])

SerializeTupleVariant ==
    /\ CanPush
    /\ \E variant \in TupleVariants :
          GenOpen("serialize_tuple_variant", Frame("tuple_variant", variant, "value"))

SerializeTupleVariantEnd ==
    /\ gpc = "serializing" /\ Top.kind = "tuple_variant"
    /\ GenClose("serialize_tuple_variant_end",
                [res |-> "Ok",
                 self |-> serialize_tuple_variant_end(Target(Parent),
                              [variant |-> Top.variant, vec |-> Top.vec])])

\* serialize_newtype_variant up to value.serialize(state): lines 629-630.
SerializeNewtypeVariant ==
    /\ CanPush
    /\ \E variant \in NewtypeVariants :
          GenOpen("serialize_newtype_variant", Frame("newtype_variant", variant, "value"))

\* serialize_newtype_variant once the payload has returned: lines 632-647.
SerializeNewtypeVariantReturn ==
    /\ gpc = "serializing" /\ Top.kind = "newtype_variant"
    /\ GenClose("serialize_newtype_variant_return",
                newtype_variant_wrap(Target(Parent),
                                     [variant |-> Top.variant, vec |-> Top.vec]))

SerializeStructVariant ==
    /\ CanPush
    /\ \E variant \in StructVariants :
          GenOpen("serialize_struct_variant", Frame("struct_variant", variant, "none"))

\* serialize_struct_variant_elt(state, key, value): the key goes to the keys,
\* then value.serialize(&mut state.values) begins.
SerializeStructVariantElt ==
    /\ gpc = "serializing" /\ Top.kind = "struct_variant"
    /\ Len(Top.keys) < MaxFields
    /\ \E key \in FieldNames :
          LET st == struct_variant_key([variant |-> Top.variant,
                                        map |-> [keys |-> Top.keys, values |-> Top.vec]], key)
          IN  gstack' = [gstack EXCEPT ![Len(gstack)].keys = st.map.keys,
                                       ![Len(gstack)].slot = "value"]
    /\ glast' = [NoOp EXCEPT !.op = "serialize_struct_variant_elt"]
    /\ UNCHANGED <<gpc, gres, gops, width, framerVars, equivVars, rtVars, decVars>>

SerializeStructVariantEnd ==
    /\ gpc = "serializing" /\ Top.kind = "struct_variant"
    /\ GenClose("serialize_struct_variant_end",
                serialize_struct_variant_end(Target(Parent),
                    [variant |-> Top.variant,
                     map |-> [keys |-> Top.keys, values |-> Top.vec]]))

\* value.serialize(&mut buf) returns Err by itself: the states in progress are
\* dropped on the way out and from_value returns the Err (line 805).
ValueFails ==
    /\ gpc = "serializing"
    /\ gpc' = "failed"
    /\ gres' = Err("Custom")
    /\ gstack' = <<gstack[1]>>
    /\ glast' = [NoOp EXCEPT !.op = "serialize", !.res = "Custom"]
    /\ UNCHANGED <<gops, width, framerVars, equivVars, rtVars, decVars>>

\* value.serialize(&mut buf) returns Ok: lines 807-815.
FromValueReturn ==
    /\ gpc = "serializing" /\ Len(gstack) = 1
    /\ gres' = from_value_pop(gstack[1].vec)
    /\ gpc' = "returned"
    /\ glast' = [NoOp EXCEPT !.op = "from_value"]
    /\ UNCHANGED <<gstack, gops, width, framerVars, equivVars, rtVars, decVars>>

NextGen ==
    \/ SerializeI64 \/ SerializeU64 \/ SerializeUnitVariant
    \/ SerializeSeq \/ SerializeSeqEnd
    \/ SerializeTupleVariant \/ SerializeTupleVariantEnd
    \/ SerializeNewtypeVariant \/ SerializeNewtypeVariantReturn
    \/ SerializeStructVariant \/ SerializeStructVariantElt \/ SerializeStructVariantEnd
    \/ ValueFails \/ FromValueReturn

SpecGen == GenInit /\ [][NextGen]_vars

(***************************************************************************)
(* What from_value and the variant calls of the encoder do.                *)
(***************************************************************************)
\* C9: once value.serialize(&mut buf) has returned Ok, from_value returns
\* Ok(g) exactly when buf holds one item, and g is that item; with no item
\* or with two or more items it returns the error BadLength and no value.
C9_FromValueArity ==
    gpc = "returned" =>
        LET buf == gstack[1].vec
        IN  /\ gres.ok <=> Len(buf) = 1
            /\ gres.ok => gres = Ok(buf[1])
            /\ ~gres.ok => gres = Err("BadLength")

\* C9: from_value has returned BadLength for a value that pushed two items.
C9_Witness ==
    /\ gpc = "returned"
    /\ Len(gstack[1].vec) = 2
    /\ gres = Err("BadLength")

\* The one-entry map a variant with a payload is wrapped in.
VariantMap(variant, payload) == Map(<< <<Str(variant), payload>> >>)

\* C10: a variant call that returns Ok appends exactly one item to the
\* builder it is called on: a unit variant the Str of its name; a newtype
\* variant the one-entry Map (Str(name), payload); a tuple variant the
\* one-entry Map (Str(name), Array of the field values in order); a struct
\* variant the one-entry Map (Str(name), Map of the (Str(field name), field
\* value) pairs in field order).
C10_VariantWireShapes ==
    LET f == glast.frame
        pushed(g) == glast.after = Append(glast.before, g)
    IN  /\ glast.op = "serialize_unit_variant" => pushed(Str(f.variant))
        /\ glast.op = "serialize_newtype_variant_return" /\ glast.res = "Ok" =>
              /\ Len(f.vec) = 1
              /\ pushed(VariantMap(f.variant, f.vec[1]))
        /\ glast.op = "serialize_tuple_variant_end" =>
              /\ glast.res = "Ok"
              /\ pushed(VariantMap(f.variant, Array(f.vec)))
        /\ glast.op = "serialize_struct_variant_end" /\ glast.res = "Ok" =>
              /\ Len(f.keys) = Len(f.vec)
              /\ \A i \in 1..Len(f.keys) : f.keys[i].t = "Str" /\ f.keys[i].v \in FieldNames
              /\ pushed(VariantMap(f.variant,
                     Map([i \in 1..Len(f.keys) |-> <<f.keys[i], f.vec[i]>>])))

\* C10: a struct variant of two fields has been ended and wrapped.
C10_Witness ==
    /\ glast.op = "serialize_struct_variant_end"
    /\ glast.res = "Ok"
    /\ Len(glast.frame.keys) = 2
    /\ glast.frame.keys[1] # glast.frame.keys[2]
    /\ Len(glast.after) = Len(glast.before) + 1

\* C13: when the payload of a newtype variant has serialized (Ok) into its
\* state, serialize_newtype_variant returns Ok and pushes the one-entry map
\* exactly when the state holds one item; with no item or with several it
\* returns BadLength, the parent builder is as it was, and from_value fails
\* with that BadLength.
C13_NewtypePayloadArity ==
    glast.op = "serialize_newtype_variant_return" =>
        /\ glast.res = "Ok" <=> Len(glast.frame.vec) = 1
        /\ glast.res = "Ok" => Len(glast.after) = Len(glast.before) + 1
        /\ glast.res # "Ok" =>
              /\ glast.res = "BadLength"
              /\ glast.after = glast.before
              /\ gpc = "failed"
              /\ gres.err = "BadLength"

\* C13: a newtype variant whose payload pushed two items has been refused.
C13_Witness ==
    /\ glast.op = "serialize_newtype_variant_return"
    /\ Len(glast.frame.vec) = 2
    /\ glast.res = "BadLength"
    /\ glast.after = glast.before

(***************************************************************************)
(* The round trip of the tests (generic.rs:920-962): from_value(&expected) *)
(* and T::deserialize(&mut x), which goes through deserialize_enum and the *)
(* VariantVisitor.                                                         *)
(***************************************************************************)
UsizeSamples == {0, 1, 42}

I8Samples == {-128, -3, 0, 22, 127}

IsizeSamples == {-1, 0, 9001, 2147483647}

TValues ==
    {T("A", <<n>>) : n \in UsizeSamples}
        \cup {T("B", <<>>)}
        \cup {T("C", <<i, j>>) : i \in I8Samples, j \in I8Samples}
        \cup {T("D", <<a>>) : a \in IsizeSamples}

RTInit ==
    /\ width = 64
    /\ ms = new
    /\ alive = TRUE
    /\ trace = <<>>
    /\ EquivIdle
    /\ GenIdle
    /\ DecIdle
    /\ expected \in TValues
    /\ x = Err("Pending")
    /\ field = Err("Pending")
    /\ actual = TErr("Pending")
    /\ rpc = "start"

\* let mut x = Generic::from_value(&expected).expect(..)
FromValue ==
    /\ rpc = "start"
    /\ x' = from_value(expected)
    /\ rpc' = IF x'.ok THEN "encoded" ELSE "failed"
    /\ UNCHANGED <<expected, field, actual, width, framerVars, equivVars, genVars, decVars>>

\* T::deserialize(&mut x): deserialize_enum hands a VariantVisitor on x to
\* the visitor of T, which asks it for the variant first.
DeserializeEnum ==
    /\ rpc = "encoded"
    /\ field' = visit_variant(x.val)
    /\ IF field'.ok
       THEN rpc' = "variant" /\ UNCHANGED actual
       ELSE rpc' = "decoded" /\ actual' = TErr(field'.err)
    /\ UNCHANGED <<expected, x, width, framerVars, equivVars, genVars, decVars>>

Decoded(r) ==
    /\ actual' = r
    /\ rpc' = "decoded"
    /\ UNCHANGED <<expected, x, field, width, framerVars, equivVars, genVars, decVars>>

\* T::A: visit_newtype::<usize>
VisitNewtype ==
    /\ rpc = "variant" /\ field.val = "A"
    /\ LET r == visit_newtype(x.val, "usize")
       IN  Decoded(IF r.ok THEN TOk(T("A", <<r.val>>)) ELSE TErr(r.err))

visit_unit == "Ok"

\* T::B: visit_unit
VisitUnit ==
    /\ rpc = "variant" /\ field.val = "B"
    /\ Decoded(IF visit_unit = "Ok" THEN TOk(T("B", <<>>)) ELSE TErr(visit_unit))

\* T::C: visit_tuple(2, visitor)
VisitTuple ==
    /\ rpc = "variant" /\ field.val = "C"
    /\ LET r == visit_tuple(x.val)
       IN  Decoded(IF r.ok THEN C_deserialize(r.val) ELSE TErr(r.err))

\* T::D: visit_struct(&["a"], visitor)
VisitStruct ==
    /\ rpc = "variant" /\ field.val = "D"
    /\ LET r == visit_struct(x.val)
       IN  Decoded(IF r.ok THEN D_deserialize(r.val) ELSE TErr(r.err))

NextRT ==
    \/ FromValue \/ DeserializeEnum
    \/ VisitNewtype \/ VisitUnit \/ VisitTuple \/ VisitStruct

SpecRT == RTInit /\ [][NextRT]_vars

\* C8: for every value of T (a newtype, a unit, a tuple and a struct
\* variant), from_value succeeds, and decoding its result as a T succeeds and
\* gives a value equal to the one encoded: same variant, same fields in the
\* same places.
C8_EnumRoundTrip ==
    /\ rpc # "failed"
    /\ rpc \in {"encoded", "variant", "decoded"} => x.ok
    /\ rpc = "decoded" => actual = TOk(expected)

\* C8: the tuple variant C(-3, 22) has been encoded and decoded.
C8_Witness ==
    /\ rpc = "decoded"
    /\ expected = T("C", <<-3, 22>>)
    /\ actual.ok
    /\ actual.val.fields = <<-3, 22>>

(***************************************************************************)
(* Decoding a T from any Generic: T::deserialize(&mut x) for an x that did *)
(* not come from from_value.                                               *)
(***************************************************************************)
\* The Reason an error of the serde constructors carries (error.rs).
ReasonOf(err) ==
    CASE err = "invalid_length" -> "BadLength"
      [] err = "invalid_type" -> "InvalidType"
      [] err = "end_of_stream" -> "EndOfStream"
      [] err = "Custom" -> "Other"
      [] OTHER -> err

\* Keys and values of the maps a T is decoded from.
SourceKeys == <<Str("A"), Str("B"), Str("C"), Str("D"), Str("Z"), UInt(0)>>

SourceValues ==
    <<UInt(42), GInt(-3), Nil, Str("a"),
      Array(<<GInt(-3), GInt(22)>>), Array(<<GInt(-3)>>),
      Array(<<Str("a"), GInt(22)>>), Array(<<GInt(-3), GInt(300)>>),
      Map(<< <<Str("a"), GInt(9001)>> >>), Map(<< <<Str("a"), Str("x")>> >>),
      Map(<< <<UInt(1), GInt(1)>> >>)>>

\* Sources that are not a Map of one or two entries: every kind of Generic.
PlainSources ==
    <<Nil, False, True, GInt(-3), UInt(42), F32("1.5"), F64("2.5"), Bin(<<1, 2>>),
      Str("A"), Str("B"), Str("C"), Str("D"), Str("Z"),
      Array(<<>>), Array(<<Str("B")>>), Array(<< Str("A"), UInt(42) >>),
      Map(<<>>)>>

\* let mut x = g
DecodeFrom(g) ==
    /\ width = 64
    /\ ms = new
    /\ alive = TRUE
    /\ trace = <<>>
    /\ EquivIdle
    /\ GenIdle
    /\ DecIdle
    /\ expected = NoT
    /\ x = Ok(g)
    /\ field = Err("Pending")
    /\ actual = TErr("Pending")
    /\ rpc = "encoded"

\* The values a T is decoded from: the plain sources, and the maps of one
\* entry and of two.
DecodeInit ==
    \/ \E i \in DOMAIN PlainSources : DecodeFrom(PlainSources[i])
    \/ \E k \in DOMAIN SourceKeys, v \in DOMAIN SourceValues :
          \/ DecodeFrom(Map(<< <<SourceKeys[k], SourceValues[v]>> >>))
          \/ DecodeFrom(Map(<< <<SourceKeys[k], SourceValues[v]>>, <<Str("B"), Nil>> >>))

NextDecode ==
    \/ DeserializeEnum
    \/ VisitNewtype \/ VisitUnit \/ VisitTuple \/ VisitStruct

SpecDecode == DecodeInit /\ [][NextDecode]_vars

\* The decode has failed with the Reason given and returned no T.
FailedWith(reason) ==
    /\ rpc = "decoded"
    /\ ~actual.ok
    /\ actual.val = NoT
    /\ ReasonOf(actual.err) = reason

\* C11: once the variant has been asked for: from a Str the discriminant is
\* the Str itself; from a Map of exactly one entry it is the key of that
\* entry; a Map of no entry or of several has failed with BadLength; a
\* source that is neither Str nor Map has failed with InvalidType; a failed
\* decode has returned no T.
C11_VariantShapeRejection ==
    rpc \in {"variant", "decoded"} =>
        LET g == x.val
        IN  /\ is_str(g) /\ field.ok => field.val = g.v
            /\ g.t = "Map" =>
                  IF Len(g.v) = 1
                  THEN field.ok => is_str(g.v[1][1]) /\ field.val = g.v[1][1].v
                  ELSE FailedWith("BadLength")
            /\ g.t \notin {"Str", "Map"} => FailedWith("InvalidType")
            /\ rpc = "decoded" /\ ~actual.ok => actual.val = NoT

\* C11: a Map of two entries, the first a well-formed newtype variant, has
\* been refused with BadLength.
C11_Witness ==
    /\ x.val.t = "Map"
    /\ Len(x.val.v) = 2
    /\ is_str(x.val.v[1][1])
    /\ x.val.v[1][1].v = "A"
    /\ x.val.v[1][2].t = "UInt"
    /\ FailedWith("BadLength")

(***************************************************************************)
(* Generic::from_value(g) of a Generic g: impl Serialize for Generic       *)
(* (generic.rs:292-323) into a VecGeneric.                                 *)
(***************************************************************************)
\* Leaves: every scalar kind; the same number as an Int and as a UInt.
Leaves ==
    <<Nil, False, True, GInt(-3), GInt(42), UInt(42), UInt(0), F32("1.5"), F64("1.5"),
      Bin(<<1, 2>>), Str("a")>>

\* A Generic of up to two levels: a leaf; an array of no, one or two leaves;
\* a map of no, one or two entries (the same key twice included); an array
\* of a map and an array.
PivotFrom(g) ==
    /\ width = 64
    /\ ms = new
    /\ alive = TRUE
    /\ trace = <<>>
    /\ EquivIdle
    /\ GenIdle
    /\ RTIdle
    /\ pg = g
    /\ pres = Err("Pending")
    /\ MapVisIdle
    /\ SeqVisIdle

PivotInit ==
    \E i \in DOMAIN Leaves, j \in DOMAIN Leaves :
        \/ PivotFrom(Leaves[i])
        \/ PivotFrom(Array(<<>>))
        \/ PivotFrom(Map(<<>>))
        \/ PivotFrom(Array(<<Leaves[i]>>))
        \/ PivotFrom(Array(<<Leaves[i], Leaves[j]>>))
        \/ PivotFrom(Map(<< <<Leaves[i], Leaves[j]>> >>))
        \/ PivotFrom(Map(<< <<Leaves[i], Leaves[j]>>, <<Leaves[i], Leaves[i]>> >>))
        \/ PivotFrom(Array(<< Map(<< <<Leaves[i], Leaves[j]>>, <<Leaves[j], Nil>> >>),
                              Array(<<Leaves[j], Leaves[i]>>) >>))

FromValueGeneric ==
    /\ pres.err = "Pending"
    /\ pres' = from_value_generic(pg)
    /\ UNCHANGED <<pg, mapVisVars, seqVisVars, width, framerVars, equivVars, genVars, rtVars>>

NextPivot == FromValueGeneric

SpecPivot == PivotInit /\ [][NextPivot]_vars

RECURSIVE SameGeneric(_, _)
\* a and b are the same at every node: kind, number or text, length, order.
SameGeneric(a, b) ==
    /\ a.t = b.t
    /\ CASE a.t = "Array" ->
              /\ Len(a.v) = Len(b.v)
              /\ \A i \in DOMAIN a.v : SameGeneric(a.v[i], b.v[i])
         [] a.t = "Map" ->
              /\ Len(a.v) = Len(b.v)
              /\ \A i \in DOMAIN a.v :
                    SameGeneric(a.v[i][1], b.v[i][1]) /\ SameGeneric(a.v[i][2], b.v[i][2])
         [] OTHER -> a.v = b.v

\* C12: from_value of a Generic succeeds and returns a Generic that is the
\* same at every node: an Int stays an Int and a UInt a UInt with the same
\* number, F32 and F64, True, False and Nil are kept, every Array and Map
\* keeps its length, its order and its repeated keys.
C12_PivotFidelity ==
    pres.err \notin {"Idle", "Pending"} => pres.ok /\ SameGeneric(pres.val, pg)

\* C12: a map whose two entries have the same UInt key has gone through.
C12_Witness ==
    /\ pres.ok
    /\ pg.t = "Map"
    /\ Len(pg.v) = 2
    /\ pg.v[1][1].t = "UInt"
    /\ pg.v[2][1].t = "UInt"
    /\ pg.v[1][1].v = pg.v[2][1].v
    /\ pg.v[1][2].t = "Int"
    /\ Len(pres.val.v) = 2

(***************************************************************************)
(* A MapVisitor over the pairs of a Map (generic.rs:350-353), driven by    *)
(* visit_key::<isize> and visit_value::<isize> calls in any order.  mlog   *)
(* is the log of the calls and what each returned.                         *)
(***************************************************************************)
MaxMapLen == 2

MaxVisits == 4

\* Keys and values of the map: integers, and one of each that is no isize.
PairKeys == <<GInt(1), GInt(2), Str("k")>>

PairValues == <<GInt(10), UInt(20), Nil>>

MapVisFrom(m) ==
    /\ width = 64
    /\ ms = new
    /\ alive = TRUE
    /\ trace = <<>>
    /\ EquivIdle
    /\ GenIdle
    /\ RTIdle
    /\ PivotIdle
    /\ SeqVisIdle
    /\ mpairs = m
    /\ mvis = MapVisitor(m)
    /\ mlog = <<>>

MapVisInit ==
    \E n \in 0..MaxMapLen :
        \E ks \in [1..n -> DOMAIN PairKeys], vs \in [1..n -> DOMAIN PairValues] :
            MapVisFrom([i \in 1..n |-> <<PairKeys[ks[i]], PairValues[vs[i]]>>])

\* What a call returned: Ok(Some(val)), Ok(None) or Err(err).
Returned(op, ok, some, val, err) ==
    [op |-> op, ok |-> ok, some |-> some, val |-> val, err |-> err]

VisitKey ==
    /\ Len(mlog) < MaxVisits
    /\ LET k == MapVisitor_visit_key(mvis)
           r == deserialize_prim(k.key, "isize")
       IN  /\ mvis' = k.self
           /\ mlog' = Append(mlog,
                 IF ~k.some THEN Returned("visit_key", TRUE, FALSE, 0, "Ok")
                 ELSE IF r.ok THEN Returned("visit_key", TRUE, TRUE, r.val, "Ok")
                 ELSE Returned("visit_key", FALSE, FALSE, 0, r.err))
    /\ UNCHANGED <<mpairs, pivotVars, seqVisVars, width, framerVars, equivVars, genVars, rtVars>>

VisitValue ==
    /\ Len(mlog) < MaxVisits
    /\ LET v == MapVisitor_visit_value(mvis, "isize")
       IN  /\ mvis' = v.self
           /\ mlog' = Append(mlog,
                 IF v.r.ok THEN Returned("visit_value", TRUE, TRUE, v.r.val, "Ok")
                 ELSE Returned("visit_value", FALSE, FALSE, 0, v.r.err))
    /\ UNCHANGED <<mpairs, pivotVars, seqVisVars, width, framerVars, equivVars, genVars, rtVars>>

NextMapVis == VisitKey \/ VisitValue

SpecMapVis == MapVisInit /\ [][NextMapVis]_vars

\* The number of visit_key calls among the first j calls.
KeyCalls(j) == Cardinality({k \in 1..j : mlog[k].op = "visit_key"})

\* The visit_key calls before call j that took a pair off the map.
KeysTaken(j) == {k \in 1..(j - 1) : mlog[k].op = "visit_key" /\ KeyCalls(k) <= Len(mpairs)}

LastOf(S) == CHOOSE k \in S : \A l \in S : l <= k

\* A value is pending at call j: a key was taken and no visit_value came since.
ValuePending(j) ==
    /\ KeysTaken(j) # {}
    /\ \A k \in (LastOf(KeysTaken(j)) + 1)..(j - 1) : mlog[k].op # "visit_value"

\* What decoding g as an isize returns.
AsIsize(op, g) ==
    IF g.t \in {"Int", "UInt"}
    THEN Returned(op, TRUE, TRUE, g.v, "Ok")
    ELSE Returned(op, FALSE, FALSE, 0, "invalid_type")

\* C14: whatever the order of the visit_key and visit_value calls: the i-th
\* visit_key takes the i-th pair and returns its key (the error of the key
\* when it is no isize), and returns None once the pairs are exhausted; a
\* visit_value returns the value of the pair taken last, at most once per
\* pair; a visit_value with no value pending (before any key, or a second
\* time for the same key) fails with EndOfStream.
C14_MapVisitorPairing ==
    \A j \in DOMAIN mlog :
        LET i == KeyCalls(j)
        IN  /\ mlog[j].op = "visit_key" =>
                  IF i <= Len(mpairs)
                  THEN mlog[j] = AsIsize("visit_key", mpairs[i][1])
                  ELSE mlog[j] = Returned("visit_key", TRUE, FALSE, 0, "Ok")
            /\ mlog[j].op = "visit_value" =>
                  IF ValuePending(j)
                  THEN mlog[j] = AsIsize("visit_value", mpairs[KeyCalls(LastOf(KeysTaken(j)))][2])
                  ELSE ~mlog[j].ok /\ ReasonOf(mlog[j].err) = "EndOfStream"

\* C14: a value asked for before any key, then the first key, its value, and
\* its value a second time.
C14_Witness ==
    /\ Len(mlog) = 4
    /\ Len(mpairs) = 2
    /\ mlog[1].op = "visit_value" /\ mlog[1].err = "end_of_stream"
    /\ mlog[2].op = "visit_key" /\ mlog[2].some
    /\ mlog[3].op = "visit_value" /\ mlog[3].some
    /\ mlog[4].op = "visit_value" /\ mlog[4].err = "end_of_stream"

(***************************************************************************)
(* A SeqVisitor over the items of an Array (generic.rs:347-349), driven by *)
(* visit::<isize> calls and closed by end, the visitor's last call.  slog  *)
(* is the log of the calls and what each returned.                         *)
(***************************************************************************)
MaxSeqLen == 3

MaxPulls == 4

\* Items of the array: integers, and one that is no isize.
SeqItems == <<GInt(7), UInt(8), Str("s")>>

SeqVisFrom(a) ==
    /\ width = 64
    /\ ms = new
    /\ alive = TRUE
    /\ trace = <<>>
    /\ EquivIdle
    /\ GenIdle
    /\ RTIdle
    /\ PivotIdle
    /\ MapVisIdle
    /\ sitems = a
    /\ svis = a
    /\ slog = <<>>

SeqVisInit ==
    \E n \in 0..MaxSeqLen :
        \E is \in [1..n -> DOMAIN SeqItems] : SeqVisFrom([i \in 1..n |-> SeqItems[is[i]]])

\* end has not been called yet.
SeqOpen == \A j \in DOMAIN slog : slog[j].op # "end"

SeqVisit ==
    /\ SeqOpen
    /\ Len(slog) < MaxPulls
    /\ LET r == SeqVisitor_visit(svis, "isize")
       IN  /\ svis' = r.iter
           /\ slog' = Append(slog, Returned("visit", r.ok, r.some, r.val, r.err))
    /\ UNCHANGED <<sitems, pivotVars, mapVisVars, width, framerVars, equivVars, genVars, rtVars>>

SeqEnd ==
    /\ SeqOpen
    /\ LET r == SeqVisitor_end(svis)
       IN  /\ svis' = SeqVisitor_end_iter(svis)
           /\ slog' = Append(slog, Returned("end", r = "Ok", FALSE, 0, r))
    /\ UNCHANGED <<sitems, pivotVars, mapVisVars, width, framerVars, equivVars, genVars, rtVars>>

NextSeqVis == SeqVisit \/ SeqEnd

SpecSeqVis == SeqVisInit /\ [][NextSeqVis]_vars

\* C15: the k-th visit returns the k-th item of the array (the error of the
\* item when it is no isize) for k up to the array's length, and None after
\* that, never an item again; end returns Ok exactly when every item has
\* been pulled, and fails with BadLength when items are left over.
C15_SeqVisitorExact ==
    \A k \in DOMAIN slog :
        /\ slog[k].op = "visit" =>
              IF k <= Len(sitems)
              THEN slog[k] = AsIsize("visit", sitems[k])
              ELSE slog[k] = Returned("visit", TRUE, FALSE, 0, "Ok")
        /\ slog[k].op = "end" =>
              /\ slog[k].ok <=> k - 1 >= Len(sitems)
              /\ ~slog[k].ok => ReasonOf(slog[k].err) = "BadLength"

\* C15: two of three items pulled, and end has failed with BadLength.
C15_Witness ==
    /\ Len(sitems) = 3
    /\ Len(slog) = 3
    /\ slog[1].op = "visit" /\ slog[2].op = "visit"
    /\ slog[3].op = "end"
    /\ slog[3].err = "invalid_length"

(***************************************************************************)
(* Failures on the way up: a decode of a T from any Generic, or a life of  *)
(* a framer whose values can fail.                                         *)
(***************************************************************************)
FramerLife == rpc = "idle" /\ Next

NextFail == NextDecode \/ FramerLife

SpecFail == (Init \/ DecodeInit) /\ [][NextFail]_vars

\* The entry the variant is read from, when the source has the shape of a
\* variant: the Str itself, or the key of the only entry.
HasVariantShape(g) == is_str(g) \/ (g.t = "Map" /\ Len(g.v) = 1)

Discriminant(g) == IF is_str(g) THEN g ELSE g.v[1][1]

\* The first item of a that is no i8, among the two the visitor of C pulls.
FirstBadItem(a) ==
    IF Len(a) >= 1 /\ ~deserialize_prim(a[1], "i8").ok THEN 1
    ELSE IF Len(a) >= 2 /\ ~deserialize_prim(a[2], "i8").ok THEN 2
    ELSE 0

\* Nested failures as the caller sees them; AtCaller(e) is what the caller
\* sees of a failure e of the discriminant or of a newtype payload.
FailuresReachCaller(AtCaller(_)) ==
    /\ rpc \in {"variant", "decoded"} /\ HasVariantShape(x.val) =>
          LET d == Field_deserialize(Discriminant(x.val))
          IN  ~d.ok => rpc = "decoded" /\ ~actual.ok /\ actual.err = AtCaller(d.err)
    /\ rpc = "decoded" /\ field.ok /\ x.val.t = "Map" =>
          LET payload == x.val.v[1][2]
          IN  /\ field.val = "A" =>
                    LET r == deserialize_prim(payload, "usize")
                    IN  ~r.ok => ~actual.ok /\ actual.err = AtCaller(r.err)
              /\ field.val = "C" /\ payload.t = "Array" /\ FirstBadItem(payload.v) > 0 =>
                    /\ ~actual.ok
                    /\ actual.err = deserialize_prim(payload.v[FirstBadItem(payload.v)], "i8").err
              /\ field.val = "D" /\ payload.t = "Map" /\ Len(payload.v) = 1
                    /\ is_str(payload.v[1][1]) /\ payload.v[1][1].v = "a" =>
                    LET r == deserialize_prim(payload.v[1][2], "isize")
                    IN  ~r.ok => ~actual.ok /\ actual.err = r.err
    /\ \A i \in DOMAIN trace :
          IsElement(trace[i]) /\ trace[i].value.res # "Ok" =>
              \/ trace[i].post.res = trace[i].value.res
              \/ trace[i].post.res = "SinkFailed" /\ Wrote(trace[i]) = <<>>

SameError(e) == e

AsOther(e) == "Other"

====
